---- MODULE Spec2Model ----
(***************************************************************************)
(* State-machine model of pyQCReps.py: the Report and Station classes, the *)
(* get_url fetcher and the shapefile export.                                *)
(*                                                                         *)
(* Conventions.                                                            *)
(*  - A Python object is a function from attribute names to values; an     *)
(*    attribute that was never assigned is absent from the domain, so      *)
(*    reading it is an AttributeError.                                     *)
(*  - Python string concatenation is sequence concatenation of tokens:     *)
(*    literals of the source are single tokens, str(int) is a sequence of  *)
(*    digit characters.                                                    *)
(*  - Python lists are objects on a heap (lists), because the default      *)
(*    argument stnlist=[] is one list object shared by every call.         *)
(*  - Sequences are 1-based here; Python index i is i+1 in the model.      *)
(*  - A method is the set of outcomes it can have, one per answer of the   *)
(*    network; an action picks one outcome.                                *)
(*  - Comparisons follow CPython 2 (the module uses basestring and         *)
(*    iteritems): an int orders before any str.                            *)
(***************************************************************************)
EXTENDS Integers, Sequences, FiniteSets, TLC

VARIABLES reports, lists, fs, fetched, last

vars == <<reports, lists, fs, fetched, last>>

(* ------------------------------ bounds -------------------------------- *)

\* most data lines in a report the server hands out
MaxData == 2
\* list_stations is not called once the station list is this long
MaxList == 3

\* the Reports a process builds, the station IDs the server knows, the day
\* and r_type arguments a caller passes
Reports == {1, 2}
StationIds == {"8454000", "9999999"}
Days == {-1, 0, 1, 9, 10, 31, 32}
RTypes == {"invalid", "qc_check", "qc_flat", "data_source", "bogus"}
Today == 9

(* --------------------------- program constants ------------------------ *)

DayLow == 0
DayHigh == 31
PadBelow == 10
InvalidSkipHeader == 7
InvalidSkipFooter == 2
QcSkipHeader == 13
QcSkipFooter == 28

None == "none"
ErrInvalidDay == "NameError: Invalid day of month specified!"
ErrInvalidType == "NameError: Invalid report type specified!"
ErrNotSupported == "NameError: Report type not supported!"
ErrAttribute == "AttributeError"
ErrType == "TypeError"
ErrIndex == "IndexError"
ErrKey == "KeyError"
ErrValue == "ValueError"
ErrTransport == "pycurl.error"

DefaultEncoding == "iso-8859-1"
FtpBase == "ftp://tidepool.nos.noaa.gov/pub/outgoing/reports/"
ApiBase == "http://tidesandcurrents.noaa.gov/api/datagetter?station="
ApiTail == "&date=latest&product=water_level&units=metric&time_zone=GMT&format=json&datum=stnd&application=ED_pyQCReps"

(* ------------------------------ objects ------------------------------- *)

HasAttr(obj, a) == a \in DOMAIN obj

SetAttr(obj, a, v) ==
    [k \in DOMAIN obj \cup {a} |-> IF k = a THEN v ELSE obj[k]]

\* a Python value that is an int or a str
IntVal(n) == [t |-> "int", n |-> n, s |-> <<>>]
StrVal(s) == [t |-> "str", n |-> 0, s |-> s]

Digits == <<"0", "1", "2", "3", "4", "5", "6", "7", "8", "9">>

RECURSIVE str(_)
str(n) ==
    IF n < 10 THEN <<Digits[n + 1]>>
    ELSE str(n \div 10) \o <<Digits[(n % 10) + 1]>>

(* ------------------------------ network ------------------------------- *)

ReportFile ==
    [t \in {"invalid", "qc_check", "qc_flat", "data_source"} |->
        CASE t = "invalid" -> "/INVALID_ERROR_REPORT.1105"
          [] t = "qc_check" -> "/QC_CHECK.1040"
          [] t = "qc_flat" -> "/QC_FLAT.1040"
          [] t = "data_source" -> "/DAILY_DATA_STATUS.1040"]

\* The layout of the files the FTP server publishes: lines before and after
\* the data lines, and the numeric columns of a data line after Station,
\* DCP and Sensor.  The two flat-text reports have no parser in the program;
\* their layout is immaterial.
FileLayout(file) ==
    CASE file = "/INVALID_ERROR_REPORT.1105" ->
            [header |-> 7, footer |-> 2, nums |-> <<5>>]
      [] file = "/QC_CHECK.1040" ->
            [header |-> 13, footer |-> 28,
             nums |-> <<240, 100, 0, 1, 0, 0, 2, 0, 0>>]
      [] OTHER -> [header |-> 3, footer |-> 1, nums |-> <<1>>]

\* a line of the heading or of the summary, read as columns
TextLine(file) ==
    <<"-------", "-", "--">> \o [i \in 1..Len(FileLayout(file).nums) |-> 0]

\* a data line of a published report, as its stripped and typed columns
DataLine(file, sid) == <<sid, "1", "A1">> \o FileLayout(file).nums

SeqsUpTo(S, n) == UNION {[1..k -> S] : k \in 0..n}

\* the reports the server may hold under a file name
PublishedReports(file) ==
    { [lines |-> [i \in 1..FileLayout(file).header |-> TextLine(file)]
                 \o [i \in 1..Len(ids) |-> DataLine(file, ids[i])]
                 \o [i \in 1..FileLayout(file).footer |-> TextLine(file)]]
      : ids \in SeqsUpTo(StationIds, MaxData) }

\* what the Data API may answer for a station: its metadata, an error
\* object, or a body that is not JSON
StationMetadata(sid) ==
    [id |-> sid, name |-> "Providence", lat |-> "41.8", lon |-> "-71.4"]

ApiAnswers(sid) ==
    { [json |-> [metadata |-> StationMetadata(sid)]],
      [json |-> [error |-> [message |-> "No data was found."]]],
      [text |-> "<html>Service Unavailable</html>"] }

Served(url) ==
    IF url[1] = FtpBase THEN PublishedReports(url[Len(url)])
    ELSE ApiAnswers(url[2])

\* get_url: c.perform() raises pycurl.error, or the response comes back with
\* the encoding (no charset in the headers of these servers).
get_url(url) ==
    {[err |-> ErrTransport]}
    \cup {[err |-> None, response |-> b, encoding |-> DefaultEncoding]
            : b \in Served(url)}

\* convert: unicode to str at every level; the model has one string type.
convert(data) == [k \in DOMAIN data |-> data[k]]

(* ------------------------------ Station ------------------------------- *)

\* json.loads of a response body
IsJson(body) == "json" \in DOMAIN body

\* Station.get_station on a Station with the given id, for one answer of
\* get_url: the Station, or the exception that leaves __init__.
get_station(self, answer) ==
    IF answer.err # None THEN [err |-> answer.err]
    ELSE IF ~IsJson(answer.response) THEN [err |-> ErrValue]
    ELSE LET data == answer.response.json
             s1 == [self EXCEPT !.encoding = answer.encoding]
         IN IF "error" \notin DOMAIN data
            THEN [err |-> None,
                  self |-> [s1 EXCEPT !.metadata = convert(data.metadata)]]
            ELSE [err |-> None,
                  self |-> [s1 EXCEPT !.metadata = convert(data)]]

\* Station.__init__: the outcomes of Station(station_id)
Station(station_id) ==
    LET self == [station_id |-> station_id,
                 metadata |-> <<>>,
                 encoding |-> DefaultEncoding]
    IN { get_station(self, a)
           : a \in get_url(<<ApiBase, station_id, ApiTail>>) }

(* ------------------------------- Report ------------------------------- *)

\* the day test with the lower bound taken inclusive
DayInRange_ZeroAccepted(day) ==
    IF day.t = "int" THEN DayLow <= day.n /\ day.n <= DayHigh ELSE FALSE

\* the test of line 85 under CPython 2 ordering: 0 < str is true and
\* str <= 31 is false, so a str day is out of range
DayInRange(day) ==
    IF day.t = "int" THEN DayLow < day.n /\ day.n <= DayHigh ELSE FALSE

\* the day as text without the leading zero
DayText_Unpadded(day) == str(day.n)

\* lines 86-89: the day as the text of the URL
DayText(day) ==
    IF day.n < PadBelow THEN <<"0">> \o str(day.n) ELSE str(day.n)

\* Report.get_report: the outcomes, each with the URLs handed to get_url
get_report(self) ==
    IF ~DayInRange(self.day)
    THEN {[self |-> self, err |-> ErrInvalidDay, urls |-> <<>>]}
    ELSE LET s1 == [self EXCEPT !.day = StrVal(DayText(self.day))]
             base_url == <<FtpBase>> \o s1.day.s
         IN IF self.r_type \in DOMAIN ReportFile
            THEN LET url == base_url \o <<ReportFile[self.r_type]>>
                 IN { IF a.err # None
                      THEN [self |-> s1, err |-> a.err, urls |-> <<url>>]
                      ELSE [self |-> SetAttr(SetAttr(s1, "body", a.response),
                                             "encoding", a.encoding),
                            err |-> None, urls |-> <<url>>]
                      : a \in get_url(url) }
            ELSE {[self |-> s1, err |-> ErrInvalidType, urls |-> <<>>]}

\* np.genfromtxt with skip_header and skip_footer: the lines in between, one
\* row each; the result is squeezed, so a single row comes back as a 0-d
\* array (ndim 0), which has no len() and cannot be indexed.  The lines of
\* the published reports are taken to be non-blank: genfromtxt passes over
\* blank lines without counting them as rows.
genfromtxt(lines, skip_header, skip_footer) ==
    LET rows == SubSeq(lines, skip_header + 1, Len(lines) - skip_footer)
    IN [ndim |-> IF Len(rows) = 1 THEN 0 ELSE 1, rows |-> rows]

\* parse_report that skips one line more than the heading has
parse_report_HeaderOffByOne(self) ==
    IF ~(HasAttr(self, "body") /\ HasAttr(self, "encoding"))
    THEN [self |-> self, err |-> ErrAttribute]
    ELSE LET tmp == self.body.lines
         IN IF self.r_type = "invalid"
            THEN [self |-> SetAttr(self, "data",
                     genfromtxt(tmp, InvalidSkipHeader + 1, InvalidSkipFooter)),
                  err |-> None]
            ELSE IF self.r_type = "qc_check"
            THEN [self |-> SetAttr(self, "data",
                     genfromtxt(tmp, QcSkipHeader + 1, QcSkipFooter)),
                  err |-> None]
            ELSE [self |-> self, err |-> ErrNotSupported]

\* parse_report that reads the flat flag report with the layout of the
\* quality control report instead of refusing it
parse_report_FlatParsed(self) ==
    IF ~(HasAttr(self, "body") /\ HasAttr(self, "encoding"))
    THEN [self |-> self, err |-> ErrAttribute]
    ELSE LET tmp == self.body.lines
         IN IF self.r_type = "invalid"
            THEN [self |-> SetAttr(self, "data",
                     genfromtxt(tmp, InvalidSkipHeader, InvalidSkipFooter)),
                  err |-> None]
            ELSE IF self.r_type \in {"qc_check", "qc_flat"}
            THEN [self |-> SetAttr(self, "data",
                     genfromtxt(tmp, QcSkipHeader, QcSkipFooter)),
                  err |-> None]
            ELSE [self |-> self, err |-> ErrNotSupported]

\* Report.parse_report
parse_report(self) ==
    IF ~(HasAttr(self, "body") /\ HasAttr(self, "encoding"))
    THEN [self |-> self, err |-> ErrAttribute]
    ELSE LET tmp == self.body.lines
         IN IF self.r_type = "invalid"
            THEN [self |-> SetAttr(self, "data",
                     genfromtxt(tmp, InvalidSkipHeader, InvalidSkipFooter)),
                  err |-> None]
            ELSE IF self.r_type = "qc_check"
            THEN [self |-> SetAttr(self, "data",
                     genfromtxt(tmp, QcSkipHeader, QcSkipFooter)),
                  err |-> None]
            ELSE [self |-> self, err |-> ErrNotSupported]

\* the loop of list_stations from row i on: a Station per row appended to
\* the list, until a Station() raises
RECURSIVE append_stations(_, _, _)
append_stations(rows, i, stnlist) ==
    IF i > Len(rows) THEN {[stnlist |-> stnlist, err |-> None]}
    ELSE UNION { IF o.err # None
                 THEN {[stnlist |-> stnlist, err |-> o.err]}
                 ELSE append_stations(rows, i + 1, Append(stnlist, o.self))
                 : o \in Station(rows[i][1]) }

\* Report.list_stations on the list object self.stnlist refers to
list_stations(self, stnlist) ==
    IF ~HasAttr(self, "data") THEN {[stnlist |-> stnlist, err |-> ErrAttribute]}
    ELSE IF self.data.ndim = 0 THEN {[stnlist |-> stnlist, err |-> ErrType]}
    ELSE append_stations(self.data.rows, 1, stnlist)

\* Report.__init__: the outcomes of Report(r_type, day, stnlist, debug),
\* where stnlist is the content of the list object the argument refers to
\* and ref its place on the heap.  stage is the call the exception left
\* from, or "done".
init(r_type, day, ref, stnlist, debug) ==
    LET self == [r_type |-> r_type, day |-> IntVal(day),
                 stnlist |-> ref, debug |-> debug]
    IN IF debug # "n"
       THEN {[self |-> self, err |-> None, stage |-> "done",
              urls |-> <<>>, stnlist |-> stnlist]}
       ELSE UNION {
            IF g.err # None
            THEN {[self |-> g.self, err |-> g.err, stage |-> "get_report",
                   urls |-> g.urls, stnlist |-> stnlist]}
            ELSE LET p == parse_report(g.self)
                 IN IF p.err # None
                    THEN {[self |-> p.self, err |-> p.err,
                           stage |-> "parse_report",
                           urls |-> g.urls, stnlist |-> stnlist]}
                    ELSE {[self |-> p.self, err |-> l.err,
                           stage |-> IF l.err = None THEN "done"
                                     ELSE "list_stations",
                           urls |-> g.urls, stnlist |-> l.stnlist]
                          : l \in list_stations(p.self, stnlist)}
            : g \in get_report(self) }

(* ------------------------------- export ------------------------------- *)

NoFile == [exists |-> FALSE, fields |-> <<>>, features |-> <<>>]

DeleteDataSource(files, name) == [files EXCEPT ![name] = NoFile]

\* CreateDataSource and CreateLayer: a new layer without fields or
\* features; a layer that is still there is opened as it is
CreateLayer(files, name) ==
    IF files[name].exists THEN files
    ELSE [files EXCEPT ![name] =
            [exists |-> TRUE, fields |-> <<>>, features |-> <<>>]]

\* opening the output without deleting the one that is there
open_layer_NoDelete(files, name) ==
    IF files[name].exists THEN files
    ELSE [files EXCEPT ![name] =
            [exists |-> TRUE, fields |-> <<>>, features |-> <<>>]]

\* lines 181-192
open_layer(files, name) ==
    IF files[name].exists
    THEN CreateLayer(DeleteDataSource(files, name), name)
    ELSE CreateLayer(files, name)

\* lines 196-223
layer_fields(r_type) ==
    <<"Stn_ID", "Stn_Name", "DCP", "Sensor_ID">>
    \o (IF r_type = "invalid" THEN <<"Inv_Recd">>
        ELSE IF r_type = "qc_check"
        THEN <<"Dat_Recd", "Pct_Recd", "Flat", "RofC", "Temp", "Height",
               "Excd_Lim", "Prim/Bkp", "Prim/Pre">>
        ELSE <<>>)

\* data[i] for a 1-based i
Indexable(data, i) == data.ndim = 1 /\ i <= Len(data.rows)

\* lines 232-252: the feature of station i and row i
feature_of(i, station, row, r_type) ==
    [FID |-> i - 1,
     wkt |-> <<"POINT(", station.metadata.lon, " ", station.metadata.lat, ")">>,
     Stn_ID |-> station.metadata.id,
     Stn_Name |-> station.metadata.name,
     DCP |-> row[2],
     Sensor_ID |-> row[3],
     nums |-> SubSeq(row, 4, Len(layer_fields(r_type)) - 1)]

\* the export loop that ends at the first error-flagged station instead of
\* passing over it
RECURSIVE write_features_StopAtError(_, _, _, _)
write_features_StopAtError(self, stnlist, i, features) ==
    IF i > Len(stnlist) THEN [features |-> features, err |-> None]
    ELSE IF "error" \notin DOMAIN stnlist[i].metadata
    THEN IF ~({"lon", "lat", "id", "name"} \subseteq DOMAIN stnlist[i].metadata)
         THEN [features |-> features, err |-> ErrKey]
         ELSE IF ~HasAttr(self, "data")
         THEN [features |-> features, err |-> ErrAttribute]
         ELSE IF ~Indexable(self.data, i)
         THEN [features |-> features, err |-> ErrIndex]
         ELSE IF self.r_type \in {"invalid", "qc_check"}
         THEN write_features_StopAtError(self, stnlist, i + 1,
                 Append(features,
                        feature_of(i, stnlist[i], self.data.rows[i], self.r_type)))
         ELSE [features |-> features, err |-> ErrNotSupported]
    ELSE [features |-> features, err |-> None]

\* the loop of lines 230-264 from station i on, over the features the layer
\* holds: the layer when the loop ends, and the exception that ended it
RECURSIVE write_features(_, _, _, _)
write_features(self, stnlist, i, features) ==
    IF i > Len(stnlist) THEN [features |-> features, err |-> None]
    ELSE IF "error" \notin DOMAIN stnlist[i].metadata
    THEN IF ~({"lon", "lat", "id", "name"} \subseteq DOMAIN stnlist[i].metadata)
         THEN [features |-> features, err |-> ErrKey]
         ELSE IF ~HasAttr(self, "data")
         THEN [features |-> features, err |-> ErrAttribute]
         ELSE IF ~Indexable(self.data, i)
         THEN [features |-> features, err |-> ErrIndex]
         ELSE IF self.r_type \in {"invalid", "qc_check"}
         THEN write_features(self, stnlist, i + 1,
                 Append(features,
                        feature_of(i, stnlist[i], self.data.rows[i], self.r_type)))
         ELSE [features |-> features, err |-> ErrNotSupported]
    ELSE write_features(self, stnlist, i + 1, features)

\* Report.create_shapefile over the files of the working directory, keyed
\* by the r_type of <r_type>.shp
create_shapefile(self, stnlist, files) ==
    LET name == self.r_type
        f1 == open_layer(files, name)
        f2 == [f1 EXCEPT ![name].fields = @ \o layer_fields(name)]
        w == write_features(self, stnlist, 1, f2[name].features)
    IN [files |-> [f2 EXCEPT ![name].features = w.features], err |-> w.err]

(* ------------------------------- state -------------------------------- *)
(* reports[r]  the r-th Report the caller builds: absent, live, or dead    *)
(*             when __init__ raised (the object as the exception left it)  *)
(* lists[ref]  the list objects: 0 is the default of stnlist=[], r the     *)
(*             list the caller passed to Report r                          *)
(* fs[t]       the file <t>.shp of the working directory                   *)
(* fetched[r]  the calls get_report of Report r made to get_url: the day   *)
(*             it found on entry and the URL                               *)
(* last        the call that made the last step and how it ended; for an   *)
(*             export, prior is the number of features the file of that    *)
(*             name held when the call began                               *)

DefaultList == 0
Refs == {DefaultList} \cup Reports

\* the lists a caller passes as stnlist: empty, or one Station built before
GivenLists ==
    {<<>>} \cup { <<o.self>> : o \in { x \in UNION {Station(sid) : sid \in StationIds}
                                        : x.err = None } }

\* the stnlist argument: left out, or a list of the caller
StnlistArgs ==
    {[given |-> FALSE, list |-> <<>>]}
    \cup {[given |-> TRUE, list |-> l] : l \in GivenLists}

DefaultArgs == {a \in StnlistArgs : ~a.given}

EmptyArgs == {a \in StnlistArgs : a.list = <<>>}

Live(r) == reports[r].state = "live"

Init ==
    /\ reports = [r \in Reports |-> [state |-> "absent", self |-> <<>>]]
    /\ lists = [ref \in Refs |-> <<>>]
    /\ fs = [t \in RTypes |-> NoFile]
    /\ fetched = [r \in Reports |-> <<>>]
    /\ last = [op |-> "start", r |-> 0, err |-> None, stage |-> "start",
               prior |-> 0]

Logged(day, urls) == [i \in 1..Len(urls) |-> [day |-> day, url |-> urls[i]]]

\* r = Report(r_type, day, stnlist, debug), or Report(r_type, day, debug)
\* with the default list, the arguments drawn from the given sets
Construct(r, types, days, debugs, args) ==
    /\ reports[r].state = "absent"
    /\ \A q \in Reports : q < r => reports[q].state # "absent"
    /\ \E r_type \in types, day \in days, debug \in debugs, arg \in args :
         LET ref == IF arg.given THEN r ELSE DefaultList
             content == IF arg.given THEN arg.list ELSE lists[DefaultList]
         IN \E o \in init(r_type, day, ref, content, debug) :
              /\ Len(o.stnlist) <= MaxList
              /\ reports' = [reports EXCEPT ![r] =
                    [state |-> IF o.err = None THEN "live" ELSE "dead",
                     self |-> o.self]]
              /\ lists' = [lists EXCEPT ![ref] = o.stnlist]
              /\ fetched' = [fetched EXCEPT ![r] = Logged(IntVal(day), o.urls)]
              /\ last' = [op |-> "__init__", r |-> r, err |-> o.err,
                          stage |-> o.stage, prior |-> 0]
              /\ UNCHANGED fs

\* r.get_report()
GetReport(r) ==
    /\ Live(r)
    /\ \E o \in get_report(reports[r].self) :
         /\ reports' = [reports EXCEPT ![r].self = o.self]
         /\ fetched' = [fetched EXCEPT ![r] =
                          @ \o Logged(reports[r].self.day, o.urls)]
         /\ last' = [op |-> "get_report", r |-> r, err |-> o.err,
                     stage |-> "get_report", prior |-> 0]
         /\ UNCHANGED <<lists, fs>>

\* r.parse_report()
ParseReport(r) ==
    /\ Live(r)
    /\ LET o == parse_report(reports[r].self)
       IN /\ reports' = [reports EXCEPT ![r].self = o.self]
          /\ last' = [op |-> "parse_report", r |-> r, err |-> o.err,
                      stage |-> "parse_report", prior |-> 0]
          /\ UNCHANGED <<lists, fs, fetched>>

\* r.list_stations()
ListStations(r) ==
    /\ Live(r)
    /\ LET ref == reports[r].self.stnlist
       IN \E o \in list_stations(reports[r].self, lists[ref]) :
            /\ Len(o.stnlist) <= MaxList
            /\ lists' = [lists EXCEPT ![ref] = o.stnlist]
            /\ last' = [op |-> "list_stations", r |-> r, err |-> o.err,
                        stage |-> "list_stations", prior |-> 0]
            /\ UNCHANGED <<reports, fs, fetched>>

\* r.create_shapefile()
CreateShapefile(r) ==
    /\ Live(r)
    /\ LET self == reports[r].self
           o == create_shapefile(self, lists[self.stnlist], fs)
       IN /\ fs' = o.files
          /\ last' = [op |-> "create_shapefile", r |-> r, err |-> o.err,
                      stage |-> "create_shapefile",
                      prior |-> Len(fs[self.r_type].features)]
          /\ UNCHANGED <<reports, lists, fetched>>

\* A process that builds one Report, with any arguments, and calls its
\* methods in any order.
Next ==
    \/ Construct(1, RTypes, Days, {"n", "y"}, StnlistArgs)
    \/ GetReport(1)
    \/ ParseReport(1)
    \/ ListStations(1)
    \/ CreateShapefile(1)

Spec == Init /\ [][Next]_vars

\* A process that builds two Invalid Error Reports for a valid day, each with
\* the default list or an empty list of its own, and exports them in any
\* order, any number of times: both write invalid.shp.
NextTwo ==
    \E r \in Reports :
        \/ Construct(r, {"invalid"}, {Today}, {"n"}, EmptyArgs)
        \/ CreateShapefile(r)

SpecTwo == Init /\ [][NextTwo]_vars

\* A process that builds one Report for any day from two before the first
\* to two after the last day of a month, with the default list, and fetches
\* again any number of times.
AllDays == (DayLow - 2)..(DayHigh + 2)

NextFetch ==
    \/ Construct(1, RTypes, AllDays, {"n", "y"}, DefaultArgs)
    \/ GetReport(1)

SpecFetch == Init /\ [][NextFetch]_vars

(* ------------------------------- claims ------------------------------- *)

Obj(r) == reports[r].self
Built(r) == reports[r].state # "absent"

\* C1: a Report whose day is an integer outside 1..31 never reaches get_url:
\* its get_report raises the invalid-day error, no URL is requested and
\* neither body nor encoding is assigned; built with debug off, the
\* constructor ends in that error.
C1_InvalidDayNoFetch ==
    \A r \in Reports :
      /\ \A i \in DOMAIN fetched[r] :
            fetched[r][i].day.t = "int"
            => fetched[r][i].day.n >= 1 /\ fetched[r][i].day.n <= 31
      /\
        (Built(r) /\ Obj(r).day.t = "int"
           /\ (Obj(r).day.n < 1 \/ Obj(r).day.n > 31))
        => /\ fetched[r] = <<>>
           /\ ~HasAttr(Obj(r), "body")
           /\ ~HasAttr(Obj(r), "encoding")
           /\ (last.r = r /\ last.stage = "get_report"
                 => last.err = ErrInvalidDay)
           /\ (Obj(r).debug = "n" => reports[r].state = "dead")

C1_Witness ==
    /\ last.op = "get_report" /\ last.r = 1
    /\ last.err = ErrInvalidDay
    /\ Obj(1).day.t = "int" /\ Obj(1).day.n < 0

\* the file name bound to each report type
FileNameOf(r_type) ==
    CASE r_type = "invalid" -> "/INVALID_ERROR_REPORT.1105"
      [] r_type = "qc_check" -> "/QC_CHECK.1040"
      [] r_type = "qc_flat" -> "/QC_FLAT.1040"
      [] r_type = "data_source" -> "/DAILY_DATA_STATUS.1040"
      [] OTHER -> "?"

\* C7: every URL get_report hands to get_url for an integer day in 1..31 is
\* the base path, then the two digits of the day (tens, units), then the
\* file name bound to r_type.
C7_UrlDaySegment ==
    \A r \in Reports : \A i \in DOMAIN fetched[r] :
        LET e == fetched[r][i]
        IN (e.day.t = "int" /\ e.day.n >= 1 /\ e.day.n <= 31)
           => e.url = <<FtpBase,
                        Digits[(e.day.n \div 10) + 1],
                        Digits[(e.day.n % 10) + 1],
                        FileNameOf(Obj(r).r_type)>>

C7_Witness ==
    /\ Len(fetched[1]) = 1
    /\ fetched[1][1].day.t = "int" /\ fetched[1][1].day.n = 7
    /\ HasAttr(Obj(1), "body")

\* C10: a get_report on a Report that already holds a fetched body does not
\* fail the day check, and requests the URL the first call requested.
C10_Repeatable ==
    \A r \in Reports :
        (last.op = "get_report" /\ last.r = r /\ HasAttr(Obj(r), "body"))
        => /\ last.err # ErrInvalidDay
           /\ \A i, j \in DOMAIN fetched[r] : fetched[r][i].url = fetched[r][j].url

Exported == {"invalid", "qc_check"}

\* the lines of a report that carry a station, as the server wrote them
IsDataLine(line) == line[1] \in StationIds
DataLinesOf(lines) == SelectSeq(lines, IsDataLine)

C9_AlwaysNotSupported ==
    \A r \in Reports :
        (Built(r) /\ last.r = r /\ last.stage = "parse_report"
           /\ Obj(r).r_type \notin Exported)
        => last.err = ErrNotSupported /\ ~HasAttr(Obj(r), "data")

\* C9 amended: parse_report on a Report of any type but invalid and qc_check
\* raises the unsupported-report-type error when a body has been fetched and
\* an attribute error when none has; either way data stays unassigned and
\* no list gains a Station.  In a constructor with debug off the call is
\* reached only after a fetch, it raises the unsupported-report-type error,
\* and neither list_stations nor the end of the constructor is reached.
C9_ParseUnsupported ==
    [][\A r \in Reports :
         (reports'[r].state # "absent" /\ last'.r = r
            /\ reports'[r].self.r_type \notin Exported)
         => /\ ~HasAttr(reports'[r].self, "data")
            /\ last'.stage = "parse_report"
               => /\ last'.err = IF HasAttr(reports'[r].self, "body")
                                 THEN ErrNotSupported ELSE ErrAttribute
                  /\ lists'[DefaultList] = lists[DefaultList]
                  /\ last'.op = "parse_report" => lists' = lists
                  /\ last'.op = "__init__"
                     => /\ last'.err = ErrNotSupported
                        /\ Len(fetched'[r]) = 1
                        /\ reports'[r].state = "dead"
                        /\ lists'[r] \in GivenLists
            /\ (last'.op = "__init__" /\ reports'[r].self.debug = "n")
               => last'.stage \in {"get_report", "parse_report"}
      ]_vars

C9_Witness ==
    /\ last.op = "__init__" /\ last.stage = "parse_report"
    /\ last.err = ErrNotSupported
    /\ Obj(1).r_type = "data_source"
    /\ Len(fetched[1]) = 1

StationsOf(r) == lists[Obj(r).stnlist]
Errored(station) == "error" \in DOMAIN station.metadata

\* C2: a call of list_stations over parsed records does not end in the
\* failure of a station's lookup: whatever the Data API answers, the call
\* returns and the run goes on.
C2_StationFailureTolerated ==
    \A r \in Reports :
        (Built(r) /\ last.r = r /\ last.stage = "list_stations"
           /\ HasAttr(Obj(r), "data") /\ Obj(r).data.ndim = 1)
        => last.err = None

\* C3: when create_shapefile returns on a Report of an exported type, the
\* layer holds as many features as the station list holds Stations without
\* an error key, and the feature of no error-flagged Station.
C3_FeatureCount ==
    \A r \in Reports :
        (Built(r) /\ last.r = r /\ last.op = "create_shapefile"
           /\ last.err = None /\ Obj(r).r_type \in Exported)
        => LET L == StationsOf(r)
               feats == fs[Obj(r).r_type].features
           IN /\ Len(feats) = Cardinality({i \in 1..Len(L) : ~Errored(L[i])})
              /\ \A k \in 1..Len(feats) :
                    /\ feats[k].FID + 1 \in 1..Len(L)
                    /\ ~Errored(L[feats[k].FID + 1])

C3_Witness ==
    /\ last.op = "create_shapefile" /\ last.err = None
    /\ Obj(1).r_type = "invalid"
    /\ HasAttr(Obj(1), "data")
    /\ Len(fs["invalid"].features) = 1
    /\ Len(Obj(1).data.rows) = 2
    /\ Len(StationsOf(1)) = 2
    /\ Errored(StationsOf(1)[1])

\* C4: create_shapefile on a Report of a type that is not exported ends in
\* the report-type-not-supported error and leaves no file of that name.
C4_UnsupportedExportRaises ==
    \A r \in Reports :
        (Built(r) /\ last.r = r /\ last.op = "create_shapefile"
           /\ Obj(r).r_type \notin Exported)
        => /\ last.err = ErrNotSupported
           /\ ~fs[Obj(r).r_type].exists

\* C5: when list_stations has returned, in the constructor or called by
\* hand, the station list holds one Station per parsed record, the Station
\* at index i built from the station ID of record i.
C5_OneStationPerRecord ==
    \A r \in Reports :
        (Built(r) /\ last.r = r /\ last.err = None
           /\ \/ last.op = "list_stations"
              \/ last.op = "__init__" /\ Obj(r).debug = "n")
        => LET L == StationsOf(r)
               rows == Obj(r).data.rows
           IN /\ Len(L) = Len(rows)
              /\ \A i \in 1..Len(L) : L[i].station_id = rows[i][1]

\* the smallest element of a non-empty set of integers
Least(S) == CHOOSE x \in S : \A y \in S : x <= y

\* the elements of a set of integers in rising order
RECURSIVE Rising(_)
Rising(S) == IF S = {} THEN <<>> ELSE <<Least(S)>> \o Rising(S \ {Least(S)})

\* the stations (by index) whose features a run of create_shapefile commits:
\* those without an error key that come before the first one without an
\* error key for which there is no record
CommittedBy(self, L) ==
    LET good == {i \in 1..Len(L) : ~Errored(L[i])}
        norow == {i \in good : ~(/\ HasAttr(self, "data")
                                 /\ self.data.ndim = 1
                                 /\ i <= Len(self.data.rows)
                                 /\ self.r_type \in Exported)}
        stop == IF norow = {} THEN Len(L) + 1 ELSE Least(norow)
    IN Rising({i \in good : i < stop})

\* C6: after a run of create_shapefile, whatever the file <r_type>.shp held
\* before, its layer has the fields of this report type once and exactly
\* the features this run commits, one per station, in station order; the
\* other files are as they were.
C6_ExportReplaces ==
    [][\A r \in Reports :
         (last'.op = "create_shapefile" /\ last'.r = r)
         => LET self == reports[r].self
                L == lists[self.stnlist]
                idx == CommittedBy(self, L)
                file == fs'[self.r_type]
            IN /\ file.exists
               /\ file.fields = layer_fields(self.r_type)
               /\ Len(file.features) = Len(idx)
               /\ \A k \in 1..Len(idx) :
                     /\ file.features[k].FID = idx[k] - 1
                     /\ file.features[k].Stn_ID = L[idx[k]].metadata.id
                     /\ file.features[k].DCP = self.data.rows[idx[k]][2]
               /\ \A t \in RTypes \ {self.r_type} : fs'[t] = fs[t]
      ]_vars

\* a second run that commits fewer features than the file held
C6_Witness ==
    /\ last.op = "create_shapefile" /\ last.r = 2
    /\ last.prior = 2
    /\ Len(fs["invalid"].features) = 1
    /\ Obj(1).stnlist # Obj(2).stnlist

====
